---- MODULE Spec2Model ----
(***************************************************************************)
(* SheetController (k304189/work): the configuration of a header-addressed *)
(* data region of a sheet, the cached boundaries derived from it, and the  *)
(* operations that update the configuration and write the region.          *)
(*                                                                         *)
(* A JavaScript value that the code tests for truthiness is modelled by a  *)
(* value of the same type whose "unset" form is the falsy one: "" for a    *)
(* string, 0 for a number.  An omitted field of a parameter object is      *)
(* therefore "" or 0, exactly as `if(param.x)` treats it.                  *)
(***************************************************************************)
EXTENDS Integers, Sequences, FiniteSets, TLC

\* ------------------------------------------------------------- bounds
\* Physical size of every sheet (Sheet.getMaxRows / Sheet.getMaxColumns).
MaxRows == 3
MaxColumns == 3
\* Number of calls made on the controller after its construction.
MaxSteps == 2
\* Largest block written by outputDataArea.
MaxDataRows == 2
MaxDataColumns == 3

\* ------------------------------------------------------------- the resource
\* Identifiers SpreadsheetApp.openById can open, and one it cannot.
BookIds == {"b1", "b2"}
BadBookId == "bad"
\* SpreadsheetApp.getActiveSpreadsheet()
ActiveBook == "b1"
SheetNames == {"s1", "s2"}
\* Cell values are strings: "" is the empty cell, the only falsy one.
Empty == ""
HeaderValues == {"", "A", "B"}
DataValues == {"", "A"}
Values == HeaderValues \cup DataValues

Rows == 1..MaxRows
Columns == 1..MaxColumns
\* A header row must leave at least one data row below it on the sheet.
HeaderRows == 1..(MaxRows - 1)

EmptyGrid == [r \in Rows |-> [c \in Columns |-> Empty]]

Max(S) == CHOOSE x \in S : \A y \in S : y <= x
Min(S) == CHOOSE x \in S : \A y \in S : x <= y

\* The value of a cell that holds an unchecked checkbox (the boolean false).
Unchecked == "false"

\* JavaScript truthiness of a cell value (Range.getValue() in a condition).
Truthy(v) == v \notin {"", Unchecked}

\* JavaScript `n || 1`.
OrOne(n) == IF n = 0 THEN 1 ELSE n

VARIABLES
  hasSheetNames,  \* book id -> the names of the sheets the book holds
  cells,          \* <<book id, sheet name>> -> the grid of the sheet
  sc,             \* the SheetController instance (its private fields)
  call,           \* the last call made on the controller and its outcome
  steps           \* calls made since construction

vars == <<hasSheetNames, cells, sc, call, steps>>

\* ------------------------------------------------------------- Range primitives
\* Range.getNextDataCell(Direction.UP) from the cell (r0, c): the movement of
\* Ctrl+Up.  Inside a run of populated cells it stops at the run's upper edge;
\* otherwise it stops at the nearest populated cell above, or at row 1.
getNextDataCellUp(g, r0, c) ==
  IF r0 = 1 THEN 1
  ELSE IF g[r0][c] # Empty /\ g[r0 - 1][c] # Empty
    THEN Min({r \in 1..r0 : \A k \in r..r0 : g[k][c] # Empty})
    ELSE LET above == {r \in 1..(r0 - 1) : g[r][c] # Empty}
         IN  IF above = {} THEN 1 ELSE Max(above)

\* Range.getNextDataCell(Direction.NEXT) from the cell (r, c0): the movement
\* of Ctrl+Right.  Inside a run of populated cells it stops at the run's right
\* edge; otherwise at the nearest populated cell to the right, or at the
\* sheet's last column.
getNextDataCellNext(g, r, c0) ==
  IF c0 = MaxColumns THEN MaxColumns
  ELSE IF g[r][c0] # Empty /\ g[r][c0 + 1] # Empty
    THEN Max({c \in c0..MaxColumns : \A k \in c0..c : g[r][k] # Empty})
    ELSE LET right == {c \in (c0 + 1)..MaxColumns : g[r][c] # Empty}
         IN  IF right = {} THEN MaxColumns ELSE Min(right)

\* Range.getValues() of the block of rowNum x columnNum cells at (r, c).
getValues(g, r, c, rowNum, columnNum) ==
  [i \in 1..rowNum |-> [j \in 1..columnNum |-> g[r + i - 1][c + j - 1]]]

\* Range.setValues(block) on the range of the block's size at (r, c).
setValues(g, r, c, block) ==
  [i \in 1..Len(g) |-> [j \in Columns |->
     IF /\ i \in r..(r + Len(block) - 1)
        /\ j \in c..(c + Len(block[1]) - 1)
     THEN block[i - r + 1][j - c + 1]
     ELSE g[i][j]]]

\* Array.prototype.flat() of a block of rows.
RECURSIVE flat(_)
flat(block) ==
  IF block = <<>> THEN <<>> ELSE Head(block) \o flat(Tail(block))

\* ------------------------------------------------------------- the controller
\* The fields of an instance before setSheetControllerParam has run: every
\* one is undefined.
Unset ==
  [book |-> "", sheetName |-> "", sheet |-> <<"", "">>,
   headerRow |-> 0, dataStartRow |-> 0, startColumn |-> 0, keyColumn |-> 0,
   lastRow |-> 0, rowNum |-> 0, lastColumn |-> 0, columnNum |-> 0,
   header |-> <<>>]

\* Sheet.getMaxRows(): the number of rows the sheet has now.
getMaxRows(g) == Len(g)

\* getLastRow(): the last populated row of the key column.
getLastRow(t, cs) ==
  LET g == cs[t.sheet]
      lastRow == getNextDataCellUp(g, getMaxRows(g), t.keyColumn)
  IN  IF Truthy(g[getMaxRows(g)][t.keyColumn]) /\ lastRow <= t.headerRow
      THEN getMaxRows(g)
      ELSE lastRow

\* getLastColumn(): the last populated column of the header row.
getLastColumn(t, cs) ==
  getNextDataCellNext(cs[t.sheet], t.headerRow, t.startColumn)

\* getRange(param).getValues(): rowNum and columnNum default to 1.
getRangeValues(t, cs, startRow, startColumn, rowNum, columnNum) ==
  getValues(cs[t.sheet], startRow, startColumn, OrOne(rowNum), OrOne(columnNum))

\* getHeaderRange().getValues()
getHeaderRangeValues(t, cs) ==
  getRangeValues(t, cs, t.headerRow, t.startColumn, 0, t.columnNum)

\* getRange(param): the rectangle asked of the sheet, rowNum and columnNum
\* defaulting to 1 when they are falsy (omitted or 0).
getRange(startRow, startColumn, rowNum, columnNum) ==
  [startRow |-> startRow, startColumn |-> startColumn,
   numRows |-> OrOne(rowNum), numColumns |-> OrOne(columnNum)]

\* Sheet.getRange(row, column, numRows, numColumns) throws unless the range
\* has at least one row and one column.
rangeThrows(range) == range.numRows < 1 \/ range.numColumns < 1

\* getColumnRange(startColumn, columnNum, allRow)
getColumnRange(t, startColumn, columnNum, allRow) ==
  getRange(IF allRow THEN 1 ELSE t.dataStartRow, startColumn,
           IF allRow THEN MaxRows ELSE t.rowNum, columnNum)

\* getDataAreaRange()
getDataAreaRange(t) ==
  getRange(t.dataStartRow, t.startColumn, t.rowNum, t.columnNum)

\* Range.getValues() of a range the sheet handed out.
rangeValues(t, cs, range) ==
  getValues(cs[t.sheet], range.startRow, range.startColumn,
            range.numRows, range.numColumns)

\* reflashLastRow() with the row count taken one short.
reflashLastRowOffByOne(t, cs) ==
  LET lastRow == getLastRow(t, cs)
  IN  [t EXCEPT !.lastRow = lastRow,
                !.rowNum = lastRow - t.dataStartRow]

\* reflashLastRow()
reflashLastRow(t, cs) ==
  LET lastRow == getLastRow(t, cs)
  IN  [t EXCEPT !.lastRow = lastRow,
                !.rowNum = lastRow - t.dataStartRow + 1]

\* reflashLastColumn() reading the header before the column count is renewed.
reflashLastColumnHeaderFirst(t, cs) ==
  LET lastColumn == getLastColumn(t, cs)
  IN  [t EXCEPT !.header = flat(getHeaderRangeValues(t, cs)),
                !.lastColumn = lastColumn,
                !.columnNum = lastColumn - t.startColumn + 1]

\* reflashLastColumn()
reflashLastColumn(t, cs) ==
  LET lastColumn == getLastColumn(t, cs)
      t1 == [t EXCEPT !.lastColumn = lastColumn,
                      !.columnNum = lastColumn - t.startColumn + 1]
  IN  [t1 EXCEPT !.header = flat(getHeaderRangeValues(t1, cs))]

\* ------------------------------------------------------------- setSheetControllerParam
\* A SheetControllerParam: an omitted field is "" or 0.
NoParam ==
  [bookId |-> "", sheetName |-> "", headerRow |-> 0, startColumn |-> 0,
   keyColumn |-> 0]

\* The four flags of one call, each decided from the parameter and the fields
\* as they were when the call began.
changeBookId(t, p) == p.bookId # "" \/ t.book = ""
changeSheetName(t, p) == p.sheetName # "" \/ changeBookId(t, p)
changeHeaderRow(t, p) == p.headerRow # 0 \/ t.headerRow = 0
changeStartColumn(t, p) == p.startColumn # 0 \/ t.startColumn = 0

\* The book instance: the opened one, else the active one on a first call.
setBook(t, p) ==
  IF p.bookId # "" THEN [t EXCEPT !.book = p.bookId]
  ELSE IF t.book = "" THEN [t EXCEPT !.book = ActiveBook]
  ELSE t

\* The sheet instance re-fetched only when a name is given.
setSheetNamedOnly(t, p, chBook) ==
  IF p.sheetName # ""
  THEN [t EXCEPT !.sheetName = p.sheetName, !.sheet = <<t.book, p.sheetName>>]
  ELSE t

\* The sheet instance: looked up by name in the book (re-fetched when the
\* name is given or the book changed).
setSheet(t, p, chBook) ==
  IF p.sheetName # "" \/ chBook
  THEN LET name == IF p.sheetName # "" THEN p.sheetName ELSE t.sheetName
       IN  [t EXCEPT !.sheetName = name, !.sheet = <<t.book, name>>]
  ELSE t

\* Book.insertSheet(name) when the book holds no sheet of that name.
insertSheet(hs, t, chSheet) ==
  IF chSheet /\ t.sheetName \notin hs[t.book]
  THEN [hs EXCEPT ![t.book] = @ \cup {t.sheetName}]
  ELSE hs

\* The header row falling back to 1 whenever it is omitted.
setHeaderRowDefault(t, p) ==
  IF p.headerRow # 0 THEN [t EXCEPT !.headerRow = p.headerRow]
  ELSE [t EXCEPT !.headerRow = 1]

\* The header row: the given one, else 1 on a first call.
setHeaderRow(t, p) ==
  IF p.headerRow # 0 THEN [t EXCEPT !.headerRow = p.headerRow]
  ELSE IF t.headerRow = 0 THEN [t EXCEPT !.headerRow = 1]
  ELSE t

\* The first data row set on the first call only.
setDataStartRowOnce(t, chHeader) ==
  IF chHeader /\ t.dataStartRow = 0
  THEN [t EXCEPT !.dataStartRow = t.headerRow + 1]
  ELSE t

\* The first data row follows the header row.
setDataStartRow(t, chHeader) ==
  IF chHeader THEN [t EXCEPT !.dataStartRow = t.headerRow + 1] ELSE t

\* The start column falling back to 1 whenever it is omitted.
setStartColumnDefault(t, p) ==
  IF p.startColumn # 0 THEN [t EXCEPT !.startColumn = p.startColumn]
  ELSE [t EXCEPT !.startColumn = 1]

\* The start column: the given one, else 1 on a first call.
setStartColumn(t, p) ==
  IF p.startColumn # 0 THEN [t EXCEPT !.startColumn = p.startColumn]
  ELSE IF t.startColumn = 0 THEN [t EXCEPT !.startColumn = 1]
  ELSE t

\* The key column following the start column only while it is unset.
setKeyColumnSticky(t, p, chStart) ==
  IF p.keyColumn # 0 THEN [t EXCEPT !.keyColumn = p.keyColumn]
  ELSE IF chStart /\ t.keyColumn = 0 THEN [t EXCEPT !.keyColumn = t.startColumn]
  ELSE t

\* The key column following the start column whenever it is omitted.
setKeyColumnFollow(t, p, chStart) ==
  IF p.keyColumn # 0 THEN [t EXCEPT !.keyColumn = p.keyColumn]
  ELSE [t EXCEPT !.keyColumn = t.startColumn]

\* The key column: the given one, else the start column when that changed.
setKeyColumn(t, p, chStart) ==
  IF p.keyColumn # 0 THEN [t EXCEPT !.keyColumn = p.keyColumn]
  ELSE IF chStart THEN [t EXCEPT !.keyColumn = t.startColumn]
  ELSE t

\* Recomputing only when the header row or the start column changed.
needReflashConfigOnly(chBook, chSheet, chHeader, chStart) ==
  chHeader \/ chStart

\* Whether the call recomputes the cached boundaries.
needReflash(chBook, chSheet, chHeader, chStart) ==
  chBook \/ chSheet \/ chHeader \/ chStart

\* The cached boundaries after the configuration is settled.
reflash(t, cs, need) ==
  IF need THEN reflashLastColumn(reflashLastRow(t, cs), cs) ELSE t

\* The configuration fields after the call, before any refresh.
configure(t, p) ==
  LET t1 == setBook(t, p)
      t2 == setSheet(t1, p, changeBookId(t, p))
      t3 == setHeaderRow(t2, p)
      t4 == setDataStartRow(t3, changeHeaderRow(t, p))
      t5 == setStartColumn(t4, p)
  IN  setKeyColumn(t5, p, changeStartColumn(t, p))

\* setSheetControllerParam(param) on an instance with fields t, for a book
\* identifier that opens.
setSheetControllerParam(t, p, cs) ==
  reflash(configure(t, p), cs,
          needReflash(changeBookId(t, p), changeSheetName(t, p),
                      changeHeaderRow(t, p), changeStartColumn(t, p)))

\* ------------------------------------------------------------- calls
\* Parameters a caller passes: row and column numbers lie on the sheet.
Params ==
  [bookId : BookIds \cup {"", BadBookId},
   sheetName : SheetNames \cup {""},
   headerRow : HeaderRows \cup {0},
   startColumn : Columns \cup {0},
   keyColumn : Columns \cup {0}]

\* The constructor takes the sheet name (a required property) and, as in
\* BookShelfSheet, no book identifier: it binds the active book.
ConstructParams == {p \in Params : p.sheetName # "" /\ p.bookId = ""}

\* Calls with the identifier that does not open: every other field is either
\* omitted or given.
OpenErrorParams ==
  [bookId : {BadBookId}, sheetName : {"", "s2"}, headerRow : {0, MaxRows - 1},
   startColumn : {0, MaxColumns}, keyColumn : {0, MaxColumns}]

NoCall ==
  [op |-> "", param |-> NoParam, values |-> <<>>, ok |-> TRUE, result |-> 0,
   returned |-> Unset]

\* Every book holds the sheet "s1" and all cells are empty.
InitSheetNames == [b \in BookIds |-> {"s1"}]
InitCells == [s \in BookIds \X SheetNames |-> EmptyGrid]

\* new SheetController(param)
Init ==
  \E p \in ConstructParams :
    /\ cells = InitCells
    /\ sc = setSheetControllerParam(Unset, p, InitCells)
    /\ hasSheetNames = insertSheet(InitSheetNames, configure(Unset, p), TRUE)
    /\ call = [NoCall EXCEPT !.op = "initialize", !.param = p]
    /\ steps = 0

\* setSheetControllerParam(param) with a book identifier that opens.
Update(p) ==
  /\ steps < MaxSteps
  /\ p.bookId # BadBookId
  /\ sc' = setSheetControllerParam(sc, p, cells)
  /\ hasSheetNames' = insertSheet(hasSheetNames, configure(sc, p),
                                  changeSheetName(sc, p))
  /\ call' = [NoCall EXCEPT !.op = "update", !.param = p]
  /\ steps' = steps + 1
  /\ UNCHANGED cells

\* setSheetControllerParam(param) throwing only after the other fields of the
\* parameter have been taken.
UpdateOpenErrorLate(p) ==
  /\ steps < MaxSteps
  /\ p.bookId = BadBookId
  /\ sc' = setSheetControllerParam(sc, [p EXCEPT !.bookId = ""], cells)
  /\ hasSheetNames' = insertSheet(hasSheetNames,
                                  configure(sc, [p EXCEPT !.bookId = ""]),
                                  changeSheetName(sc, [p EXCEPT !.bookId = ""]))
  /\ call' = [NoCall EXCEPT !.op = "update", !.param = p, !.ok = FALSE]
  /\ steps' = steps + 1
  /\ UNCHANGED cells

\* setSheetControllerParam(param) with a book identifier that does not open:
\* openById throws before any field is assigned.
UpdateOpenError(p) ==
  /\ steps < MaxSteps
  /\ p.bookId = BadBookId
  /\ call' = [NoCall EXCEPT !.op = "update", !.param = p, !.ok = FALSE]
  /\ steps' = steps + 1
  /\ UNCHANGED <<hasSheetNames, cells, sc>>

\* Blocks of n rows of m values each.
Blocks(n, m, V) == [1..n -> [1..m -> V]]

\* Header arrays that fit on the sheet from the start column.
HeaderArrays(t) ==
  UNION {[1..m -> HeaderValues] : m \in 1..(MaxColumns - t.startColumn + 1)}

\* Data blocks that fit on the sheet from the first data row and start column.
DataArrays(t) ==
  UNION {Blocks(n, m, DataValues) :
           n \in 1..Min({MaxDataRows, MaxRows - t.dataStartRow + 1}),
           m \in 1..Min({MaxDataColumns, MaxColumns - t.startColumn + 1})}

\* outputHeader refreshing the row pair as well.
outputHeaderRefreshAll(t, cs, headerArray) ==
  LET g == setValues(cs[t.sheet], t.headerRow, t.startColumn, <<headerArray>>)
      written == [cs EXCEPT ![t.sheet] = g]
  IN  [cells |-> written,
       this |-> reflashLastRow(reflashLastColumn(t, written), written)]

\* outputDataArea refreshing the column pair as well.
outputDataAreaRefreshAll(t, cs, outputDataArray) ==
  LET g == setValues(cs[t.sheet], t.dataStartRow, t.startColumn, outputDataArray)
      written == [cs EXCEPT ![t.sheet] = g]
  IN  [cells |-> written,
       this |-> reflashLastColumn(reflashLastRow(t, written), written)]

\* outputHeader(headerArray)
outputHeader(t, cs, headerArray) ==
  LET g == setValues(cs[t.sheet], t.headerRow, t.startColumn, <<headerArray>>)
      written == [cs EXCEPT ![t.sheet] = g]
  IN  [cells |-> written, this |-> reflashLastColumn(t, written)]

\* outputDataArea(outputDataArray)
outputDataArea(t, cs, outputDataArray) ==
  LET g == setValues(cs[t.sheet], t.dataStartRow, t.startColumn, outputDataArray)
      written == [cs EXCEPT ![t.sheet] = g]
  IN  [cells |-> written, this |-> reflashLastRow(t, written)]

OutputHeader(headerArray) ==
  /\ steps < MaxSteps
  /\ LET r == outputHeader(sc, cells, headerArray)
     IN  /\ cells' = r.cells
         /\ sc' = r.this
  /\ call' = [NoCall EXCEPT !.op = "outputHeader", !.values = <<headerArray>>]
  /\ steps' = steps + 1
  /\ UNCHANGED hasSheetNames

OutputDataArea(outputDataArray) ==
  /\ steps < MaxSteps
  /\ LET r == outputDataArea(sc, cells, outputDataArray)
     IN  /\ cells' = r.cells
         /\ sc' = r.this
  /\ call' = [NoCall EXCEPT !.op = "outputDataArea", !.values = outputDataArray]
  /\ steps' = steps + 1
  /\ UNCHANGED hasSheetNames

\* Array.prototype.lastIndexOf: the 0-based position of the last match.
lastIndexOf(array, x) ==
  LET at == {i \in 1..Len(array) : array[i] = x}
  IN  IF at = {} THEN -1 ELSE Max(at) - 1

\* Array.prototype.indexOf: the 0-based position of the first match, else -1.
indexOf(array, x) ==
  LET at == {i \in 1..Len(array) : array[i] = x}
  IN  IF at = {} THEN -1 ELSE Min(at) - 1

\* getHeaderArrayIndexByColumnName(columnName): the index, or a throw.
getHeaderArrayIndexByColumnName(t, columnName) ==
  LET idx == indexOf(t.header, columnName)
  IN  IF idx = -1 THEN [ok |-> FALSE, result |-> 0]
      ELSE [ok |-> TRUE, result |-> idx]

\* getHeaderColumnByColumnName(columnName): the sheet column, or the throw of
\* getHeaderArrayIndexByColumnName.
getHeaderColumnByColumnName(t, columnName) ==
  LET headerArrayIdx == getHeaderArrayIndexByColumnName(t, columnName)
  IN  IF headerArrayIdx.ok
      THEN [ok |-> TRUE, result |-> headerArrayIdx.result + t.startColumn]
      ELSE headerArrayIdx

\* getHeaderArrayIndexByColumnName after a fresh scan of the header row.
GetHeaderArrayIndexRescanned(columnName) ==
  /\ steps < MaxSteps
  /\ sc' = reflashLastColumn(sc, cells)
  /\ LET r == getHeaderArrayIndexByColumnName(sc', columnName)
     IN  call' = [NoCall EXCEPT !.op = "getHeaderArrayIndexByColumnName",
                                !.values = <<<<columnName>>>>,
                                !.ok = r.ok, !.result = r.result]
  /\ steps' = steps + 1
  /\ UNCHANGED <<hasSheetNames, cells>>

GetHeaderArrayIndexByColumnName(columnName) ==
  /\ steps < MaxSteps
  /\ LET r == getHeaderArrayIndexByColumnName(sc, columnName)
     IN  call' = [NoCall EXCEPT !.op = "getHeaderArrayIndexByColumnName",
                                !.values = <<<<columnName>>>>,
                                !.ok = r.ok, !.result = r.result]
  /\ steps' = steps + 1
  /\ UNCHANGED <<hasSheetNames, cells, sc>>

GetHeaderColumnByColumnName(columnName) ==
  /\ steps < MaxSteps
  /\ LET r == getHeaderColumnByColumnName(sc, columnName)
     IN  call' = [NoCall EXCEPT !.op = "getHeaderColumnByColumnName",
                                !.values = <<<<columnName>>>>,
                                !.ok = r.ok, !.result = r.result]
  /\ steps' = steps + 1
  /\ UNCHANGED <<hasSheetNames, cells, sc>>

\* getRange({startRow, startColumn}).setValue(v): a cell of the bound sheet
\* written through the range the controller hands out; no cache is refreshed.
SetValue(r, c, v) ==
  /\ steps < MaxSteps
  /\ cells' = [cells EXCEPT ![sc.sheet] =
                 setValues(@, r, c, <<<<v>>>>)]
  /\ call' = [NoCall EXCEPT !.op = "setValue", !.values = <<<<v>>>>]
  /\ steps' = steps + 1
  /\ UNCHANGED <<hasSheetNames, sc>>

Next ==
  \/ \E p \in Params : Update(p)
  \/ \E p \in OpenErrorParams : UpdateOpenError(p)
  \/ \E h \in HeaderArrays(sc) : OutputHeader(h)
  \/ \E d \in DataArrays(sc) : OutputDataArea(d)
  \/ \E r \in Rows, c \in Columns, v \in Values : SetValue(r, c, v)
  \/ \E n \in HeaderValues : GetHeaderArrayIndexByColumnName(n)
  \/ \E n \in HeaderValues : GetHeaderColumnByColumnName(n)

Spec == Init /\ [][Next]_vars

\* ------------------------------------------------------------- copying
\* The name Sheet.copyTo gives the copy in the destination: "Copy of <name>",
\* with a number after it when the destination holds that name already.
copyToName(names, name) ==
  IF ("Copy of " \o name) \notin names THEN "Copy of " \o name
  ELSE "Copy of " \o name \o " 1"

\* The controller the copy gets when it is built anew from the book and the
\* sheet name alone.
copyToSheetControllerAnew(t, cs, copyToBookId, sheetName) ==
  setSheetControllerParam(Unset,
    [NoParam EXCEPT !.bookId = copyToBookId, !.sheetName = sheetName], cs)

\* copyToSheetController: the fields of this controller assigned to a new
\* object, then setSheetControllerParam({bookId, sheetName}) on it.
copyToSheetController(t, cs, copyToBookId, sheetName) ==
  setSheetControllerParam(t,
    [NoParam EXCEPT !.bookId = copyToBookId, !.sheetName = sheetName], cs)

\* copySheetToAnotherBook(copyToBookId, copyToSheetName): the sheets and the
\* names afterwards, the controller returned, and whether it returned.
\* openById throws for an identifier that does not open; setName throws when
\* the destination already holds a sheet of that name, the copy staying there
\* under the name copyTo gave it.
copySheetToAnotherBook(t, cs, hs, copyToBookId, copyToSheetName) ==
  LET sheetName ==
        IF copyToSheetName # "" THEN copyToSheetName ELSE t.sheetName
  IN  IF copyToBookId = BadBookId
      THEN [cells |-> cs, names |-> hs, ok |-> FALSE, returned |-> Unset]
      ELSE IF sheetName \in hs[copyToBookId]
      THEN [cells |-> cs,
            names |-> [hs EXCEPT ![copyToBookId] =
                         @ \cup {copyToName(@, t.sheetName)}],
            ok |-> FALSE, returned |-> Unset]
      ELSE LET copied == [cs EXCEPT ![<<copyToBookId, sheetName>>] =
                            cs[t.sheet]]
           IN  [cells |-> copied,
                names |-> [hs EXCEPT ![copyToBookId] = @ \cup {sheetName}],
                ok |-> TRUE,
                returned |-> copyToSheetController(t, copied, copyToBookId,
                                                   sheetName)]

CopySheetToAnotherBook(copyToBookId, copyToSheetName) ==
  /\ steps < MaxSteps
  /\ LET r == copySheetToAnotherBook(sc, cells, hasSheetNames, copyToBookId,
                                     copyToSheetName)
     IN  /\ cells' = r.cells
         /\ hasSheetNames' = r.names
         /\ call' = [NoCall EXCEPT !.op = "copySheetToAnotherBook",
                       !.param = [NoParam EXCEPT !.bookId = copyToBookId,
                                                 !.sheetName = copyToSheetName],
                       !.ok = r.ok, !.returned = r.returned]
  /\ steps' = steps + 1
  /\ UNCHANGED sc

\* A controller, writes to its sheet, and copies of the sheet.
NextCopy ==
  \/ \E h \in HeaderArrays(sc) : OutputHeader(h)
  \/ \E d \in DataArrays(sc) : OutputDataArea(d)
  \/ \E r \in Rows, c \in Columns, v \in Values : SetValue(r, c, v)
  \/ \E b \in BookIds \cup {BadBookId}, n \in SheetNames \cup {""} :
       CopySheetToAnotherBook(b, n)

SpecCopy == Init /\ [][NextCopy]_vars

\* ------------------------------------------------------------- BookShelfSheet
\* BookShelfSheet.ADD_POSITION_FIRST / ADD_POSITION_LAST, and the omitted
\* position (null).
ADD_POSITION_FIRST == "add_position_first"
ADD_POSITION_LAST == "add_position_last"
AddPositions == {ADD_POSITION_FIRST, ADD_POSITION_LAST, ""}

\* BookShelfSheet.CHECKBOX_COLUMN
CHECKBOX_COLUMN == 1

\* The header row and the key column BookShelfSheet gives its controller
\* (the header row of the source, 13, brought onto the model's sheet).
ShelfHeaderRow == 1
ShelfKeyColumn == 2

\* new SheetController({sheetName, headerRow, keyColumn}) in the constructor.
ShelfParam ==
  [NoParam EXCEPT !.sheetName = "s1", !.headerRow = ShelfHeaderRow,
                  !.keyColumn = ShelfKeyColumn]

\* The book-list sheet: one row more than the other sheets, so that a row can
\* be inserted below two rows under the header; its cells hold anything.
ShelfRows == MaxRows + 1
ShelfGrids == [1..ShelfRows -> [Columns -> DataValues]]

\* The read accessor of the controller's configuration and cached fields.
getSheetControllerParam(t) == t

\* getRowRange(startRow, rowNum, allColumn)
getRowRange(t, startRow, rowNum, allColumn) ==
  getRange(startRow, IF allColumn THEN 1 ELSE t.startColumn,
           rowNum, IF allColumn THEN MaxColumns ELSE t.columnNum)

\* Range.insertCells(Dimension.ROWS) needs no row added to the sheet: the
\* cells it pushes past the last row are empty.
fitsInsertCells(g, range) ==
  /\ range.startRow + range.numRows - 1 <= Len(g)
  /\ \A i \in (Len(g) - range.numRows + 1)..Len(g) :
       \A j \in range.startColumn..(range.startColumn + range.numColumns - 1) :
         g[i][j] = Empty

\* Range.insertCells(Dimension.ROWS): empty cells take the place of the range
\* and the cells of its columns from there on move down.
insertCells(g, range) ==
  [i \in 1..Len(g) |-> [j \in Columns |->
     IF j \notin range.startColumn..(range.startColumn + range.numColumns - 1)
        \/ i < range.startRow
     THEN g[i][j]
     ELSE IF i < range.startRow + range.numRows THEN Empty
     ELSE g[i - range.numRows][j]]]

\* The row addRowInDataArea(addPosition) inserts at.
addRow(t, addPosition) ==
  IF addPosition = ADD_POSITION_LAST
  THEN getSheetControllerParam(t).lastRow + 1
  ELSE getSheetControllerParam(t).dataStartRow

\* addRowInDataArea(addPosition): the sheet afterwards.
addRowInDataArea(t, cs, addPosition) ==
  LET range == getRowRange(t, addRow(t, addPosition), 1, FALSE)
      newAdditionalRangeRow == range.startRow
      g == setValues(insertCells(cs[t.sheet], range),
                     newAdditionalRangeRow, CHECKBOX_COLUMN, <<<<Unchecked>>>>)
  IN  [cells |-> [cs EXCEPT ![t.sheet] = g], row |-> newAdditionalRangeRow]

\* new BookShelfSheet(param) over a book-list sheet that holds anything.
InitShelf ==
  \E g \in ShelfGrids :
    /\ cells = [InitCells EXCEPT ![<<ActiveBook, ShelfParam.sheetName>>] = g]
    /\ sc = setSheetControllerParam(Unset, ShelfParam, cells)
    /\ hasSheetNames = insertSheet(InitSheetNames, configure(Unset, ShelfParam),
                                   TRUE)
    /\ call = [NoCall EXCEPT !.op = "initialize", !.param = ShelfParam]
    /\ steps = 0

AddRowInDataArea(addPosition) ==
  /\ steps < MaxSteps
  /\ fitsInsertCells(cells[sc.sheet],
                     getRowRange(sc, addRow(sc, addPosition), 1, FALSE))
  /\ LET r == addRowInDataArea(sc, cells, addPosition)
     IN  /\ cells' = r.cells
         /\ call' = [NoCall EXCEPT !.op = "addRowInDataArea",
                                   !.values = <<<<addPosition>>>>,
                                   !.result = r.row]
  /\ steps' = steps + 1
  /\ UNCHANGED <<hasSheetNames, sc>>

NextShelf == \E a \in AddPositions : AddRowInDataArea(a)

SpecShelf == InitShelf /\ [][NextShelf]_vars

\* ------------------------------------------------------------- properties
\* The parameter of the last call.
param == call.param

\* The last call was a successful initialize or update.
Configured == call.op \in {"initialize", "update"} /\ call.ok

\* C1: in every state after initialize, under any sequence of update,
\* outputHeader and outputDataArea calls, rowNum = lastRow - dataStartRow + 1
\* and columnNum = lastColumn - startColumn + 1.
C1_BoundaryInvariant ==
  /\ sc.rowNum = sc.lastRow - sc.dataStartRow + 1
  /\ sc.columnNum = sc.lastColumn - sc.startColumn + 1

\* An update that moved the header row below row 1 and the start column off
\* column 1, on a sheet whose key column holds data down to the last row.
C1_Witness ==
  /\ call.op = "update" /\ call.ok
  /\ param.headerRow = 2 /\ param.startColumn = 2
  /\ sc.dataStartRow = 3 /\ sc.lastRow = MaxRows /\ sc.rowNum = MaxRows - 2
  /\ sc.lastColumn = MaxColumns /\ sc.columnNum = MaxColumns - 1

\* C2: after every reflashLastColumn the cached header has exactly columnNum
\* entries.
C2_HeaderLength == Len(sc.header) = sc.columnNum

\* outputHeader wrote two names on an otherwise empty header row and the
\* cache holds two columns.
C2_Witness ==
  /\ call.op = "outputHeader"
  /\ Len(call.values[1]) = 2
  /\ sc.columnNum = 2 /\ Len(sc.header) = 2 /\ sc.startColumn = 1

\* C3: dataStartRow = headerRow + 1 in every state after initialize.
C3_DataStartRow == sc.dataStartRow = sc.headerRow + 1

\* An update that gave no headerRow, on a controller whose header row is 2.
C3_Witness ==
  /\ call.op = "update" /\ call.ok
  /\ param.headerRow = 0 /\ param.startColumn # 0
  /\ sc.headerRow = 2 /\ sc.dataStartRow = 3

\* A step that is a successful update.
Updated == call'.op = "update" /\ call'.ok /\ steps' = steps + 1

C5_KeyColumnFollows ==
  (Configured /\ param.startColumn # 0 /\ param.keyColumn = 0) =>
    /\ sc.startColumn = param.startColumn
    /\ sc.keyColumn = param.startColumn

\* The second update of a run gave startColumn 2 alone.
C5_Witness ==
  /\ call.op = "update" /\ call.ok /\ steps = 2
  /\ param = [NoParam EXCEPT !.startColumn = 2]
  /\ sc.keyColumn = 2

\* C6: an update that gives neither startColumn nor keyColumn leaves
\* keyColumn as it was.
C6_KeyColumnSticky ==
  [][(Updated /\ call'.param.startColumn = 0 /\ call'.param.keyColumn = 0)
       => sc'.keyColumn = sc.keyColumn]_vars

\* An update of the book alone, on a controller whose key column is not its
\* start column.
C6_Witness ==
  /\ call.op = "update" /\ call.ok
  /\ param = [NoParam EXCEPT !.bookId = "b2"]
  /\ sc.keyColumn = 3 /\ sc.startColumn = 1

\* The cached boundaries are those a scan of the bound sheet gives now.
Fresh(t, cs) ==
  /\ t.lastRow = getLastRow(t, cs)
  /\ t.rowNum = t.lastRow - t.dataStartRow + 1
  /\ t.lastColumn = getLastColumn(t, cs)
  /\ t.columnNum = t.lastColumn - t.startColumn + 1
  /\ t.header = flat(getHeaderRangeValues(t, cs))

\* After an initialize every flag is set; after an update on a constructed
\* instance a flag is set exactly when its field is given.
AnyFlag ==
  \/ call.op = "initialize"
  \/ param.bookId # "" \/ param.sheetName # ""
  \/ param.headerRow # 0 \/ param.startColumn # 0

\* C7: after initialize, and after every update that sets one of the four
\* flags, both cached pairs are the scan results for the new configuration on
\* the bound sheet.
C7_FlagRecomputes == (Configured /\ AnyFlag) => Fresh(sc, cells)

\* An update of the book alone left a sheet that holds data for a sheet that
\* holds none: the caches are those of the empty sheet.
C7_Witness ==
  /\ call.op = "update" /\ call.ok
  /\ param = [NoParam EXCEPT !.bookId = "b2"]
  /\ cells[<<ActiveBook, sc.sheetName>>] # EmptyGrid
  /\ cells[sc.sheet] = EmptyGrid
  /\ sc.lastRow = 1 /\ sc.lastColumn = MaxColumns

\* A step that is a successful update binding another book or sheet name.
Rebound ==
  Updated /\ (sc'.book # sc.book \/ sc'.sheetName # sc.sheetName)

\* C8 as claimed: an update that changes the book or the sheet name and omits
\* startColumn (headerRow) sets it to 1.
C8_Original ==
  [][Rebound =>
       /\ call'.param.startColumn = 0 => sc'.startColumn = 1
       /\ call'.param.headerRow = 0 => sc'.headerRow = 1]_vars

\* C8 amended: an update that changes the book or the sheet name and omits
\* startColumn (headerRow) keeps the value configured before.
C8_ReboundKeepsConfig ==
  [][Rebound =>
       /\ call'.param.startColumn = 0 => sc'.startColumn = sc.startColumn
       /\ call'.param.headerRow = 0 => sc'.headerRow = sc.headerRow]_vars

\* The first update of a run moved the controller to book "b2" and gave
\* nothing else; header row 2 and start column 3 are still configured.
C8_Witness ==
  /\ call.op = "update" /\ call.ok /\ steps = 1
  /\ param = [NoParam EXCEPT !.bookId = "b2"]
  /\ sc.book = "b2" /\ sc.headerRow = 2 /\ sc.startColumn = 3

\* The key column holds a value in every row from the first data row down to
\* the sheet's last row.
KeyColumnFull(t, cs) ==
  /\ t.dataStartRow <= MaxRows
  /\ \A r \in t.dataStartRow..MaxRows : cs[t.sheet][r][t.keyColumn] # Empty

\* The last call ran reflashLastRow.
RefreshedLastRow == call.op = "outputDataArea" \/ (Configured /\ AnyFlag)

\* C9 as claimed: when the key column is populated from the first data row
\* down to the sheet's last row, reflashLastRow leaves lastRow at the sheet's
\* last row, whatever the header row and the cells at and above it hold.
C9_Original ==
  (RefreshedLastRow /\ KeyColumnFull(sc, cells)) => sc.lastRow = MaxRows

\* C10 as claimed: after outputHeader(headerArray) with named columns the
\* header range reads back as [headerArray] and the cached header is
\* headerArray.
C10_Original ==
  (/\ call.op = "outputHeader"
   /\ \A i \in 1..Len(call.values[1]) : call.values[1][i] # Empty)
  => /\ getHeaderRangeValues(sc, cells) = call.values
     /\ sc.header = call.values[1]

\* C11 as claimed, in the case most favourable to it: outputDataArea wrote
\* rows of non-empty values, as wide as the cached columnNum, covering the key
\* column.  The data area then reads back as the rows written and rowNum is
\* their number.
C11_Original ==
  (/\ call.op = "outputDataArea"
   /\ \A i \in 1..Len(call.values) :
        \A j \in 1..Len(call.values[i]) : call.values[i][j] # Empty
   /\ Len(call.values[1]) = sc.columnNum
   /\ sc.keyColumn \in sc.startColumn..(sc.startColumn + sc.columnNum - 1))
  => /\ sc.rowNum = Len(call.values)
     /\ ~rangeThrows(getDataAreaRange(sc))
     /\ rangeValues(sc, cells, getDataAreaRange(sc)) = call.values

\* The last call (or the call of the step) was a header lookup.
Lookups == {"getHeaderArrayIndexByColumnName", "getHeaderColumnByColumnName"}
LookedUp == call'.op \in Lookups /\ steps' = steps + 1

\* The sheet column a lookup result stands for is result - Offset.
Offset(t, op) ==
  IF op = "getHeaderColumnByColumnName" THEN t.startColumn ELSE 0

\* C12: for a name in the cached header, getHeaderArrayIndexByColumnName
\* returns the smallest 0-based index holding it and
\* getHeaderColumnByColumnName that index plus startColumn; for a name not in
\* it both throw; neither changes the controller or the sheets.
C12_HeaderLookup ==
  [][LookedUp =>
       LET name == call'.values[1][1]
           i == call'.result - Offset(sc, call'.op) + 1
       IN  /\ UNCHANGED <<sc, cells, hasSheetNames>>
           /\ call'.ok <=> \E k \in 1..Len(sc.header) : sc.header[k] = name
           /\ call'.ok =>
                /\ i \in 1..Len(sc.header)
                /\ sc.header[i] = name
                /\ \A k \in 1..(i - 1) : sc.header[k] # name]_vars

\* A lookup of a name the header holds twice, off column 1, and a lookup that
\* threw.
C12_Witness ==
  /\ call.op = "getHeaderColumnByColumnName" /\ call.ok
  /\ sc.header = <<"A", "A">> /\ sc.startColumn = 2
  /\ call.values = <<<<"A">>>> /\ call.result = 2

\* The configuration fields and the sheet binding of a controller.
Config(t) ==
  <<t.book, t.sheetName, t.sheet, t.headerRow, t.dataStartRow, t.startColumn,
    t.keyColumn>>

\* C13: outputHeader changes only lastColumn, columnNum and header: lastRow,
\* rowNum, headerRow, dataStartRow, startColumn, keyColumn and the sheet
\* binding are the same after the call as before it.
C13_OutputHeaderFrame ==
  [][(call'.op = "outputHeader" /\ steps' = steps + 1) =>
       /\ sc'.lastRow = sc.lastRow
       /\ sc'.rowNum = sc.rowNum
       /\ Config(sc') = Config(sc)]_vars

\* A header written over the key column, after which a scan of the key column
\* no longer gives the cached lastRow.
C13_Witness ==
  /\ call.op = "outputHeader"
  /\ sc.keyColumn >= sc.startColumn
  /\ sc.keyColumn < sc.startColumn + Len(call.values[1])
  /\ sc.lastRow # getLastRow(sc, cells)

\* C14: outputDataArea changes only lastRow and rowNum: lastColumn, columnNum,
\* header and every configuration field are the same after the call as before
\* it, even when the written block is wider than the cached columnNum.
C14_OutputDataAreaFrame ==
  [][(call'.op = "outputDataArea" /\ steps' = steps + 1) =>
       /\ sc'.lastColumn = sc.lastColumn
       /\ sc'.columnNum = sc.columnNum
       /\ sc'.header = sc.header
       /\ Config(sc') = Config(sc)]_vars

\* A block wider than the cached columnNum has been written.
C14_Witness ==
  /\ call.op = "outputDataArea"
  /\ Len(call.values[1]) > sc.columnNum
  /\ sc.columnNum = Len(sc.header)
  /\ sc.columnNum > 0

\* C15 as claimed: initializing on a completely empty sheet with headerRow 1
\* and startColumn 1 yields dataStartRow = 2, keyColumn = 1, rowNum = 0,
\* columnNum = 0 (or one column, the least a range can have) and an empty
\* header.
C15_Original ==
  (/\ call.op = "initialize"
   /\ cells[sc.sheet] = EmptyGrid
   /\ sc.headerRow = 1
   /\ sc.startColumn = 1
   /\ param.keyColumn \in {0, 1})
  => /\ sc.dataStartRow = 2
     /\ sc.keyColumn = 1
     /\ sc.rowNum = 0
     /\ sc.columnNum \in {0, 1}
     /\ sc.header = <<>>

\* C16: an update whose book identifier cannot be opened fails, and leaves
\* every configuration field, the sheet binding, the cached boundaries and
\* header, and the books exactly as they were before the call.
C16_OpenErrorKeepsState ==
  [][(call'.op = "update" /\ steps' = steps + 1
      /\ call'.param.bookId = BadBookId) =>
       /\ ~call'.ok
       /\ sc' = sc
       /\ hasSheetNames' = hasSheetNames
       /\ cells' = cells]_vars

\* A failed update that named another sheet, header row, start column and key
\* column than the ones the controller still has.
C16_Witness ==
  /\ call.op = "update" /\ ~call.ok
  /\ param.sheetName # "" /\ param.sheetName # sc.sheetName
  /\ param.headerRow # 0 /\ param.headerRow # sc.headerRow
  /\ param.startColumn # 0 /\ param.startColumn # sc.startColumn
  /\ param.keyColumn # 0 /\ param.keyColumn # sc.keyColumn
  /\ param.sheetName \notin hasSheetNames[sc.book]

\* C17: after every successful initialize or update the bound sheet is the
\* sheet of the bound book that has the configured sheet name, and the book
\* holds a sheet of that name (created if it did not exist), an update that
\* changes only the book included.
C17_SheetBinding ==
  /\ sc.sheet = <<sc.book, sc.sheetName>>
  /\ sc.book \in BookIds
  /\ sc.sheetName \in hasSheetNames[sc.book]

\* An update that gave only the book: the sheet name kept from before has been
\* resolved, and created, in the new book.
C17_Witness ==
  /\ call.op = "update" /\ call.ok
  /\ param.bookId = "b2" /\ param.sheetName = ""
  /\ sc.sheetName = "s2"
  /\ sc.sheet = <<"b2", "s2">>
  /\ "s2" \notin InitSheetNames["b2"]
  /\ "s2" \in hasSheetNames["b2"]

\* The header row of the bound sheet as a scan would read it now.
LiveHeader == flat(getHeaderRangeValues(sc, cells))

\* C18: the lookups never rescan: whatever has been written to the header
\* cells of the sheet without outputHeader or an invalidating update, a lookup
\* leaves header, lastColumn and columnNum as cached and answers from the
\* header as it was cached before the call.
C18_LookupNeverRescans ==
  [][LookedUp =>
       /\ sc'.header = sc.header
       /\ sc'.lastColumn = sc.lastColumn
       /\ sc'.columnNum = sc.columnNum
       /\ call'.ok =>
            call'.result = indexOf(sc.header, call'.values[1][1])
                           + Offset(sc, call'.op)
       /\ ~call'.ok => indexOf(sc.header, call'.values[1][1]) = -1]_vars

\* A lookup answered after a direct write to the header row: the name is found
\* at a position where the sheet no longer holds it.
C18_Witness ==
  /\ call.op \in Lookups /\ call.ok
  /\ LiveHeader # sc.header
  /\ LET i == call.result - Offset(sc, call.op) + 1
     IN  /\ sc.header[i] = call.values[1][1]
         /\ cells[sc.sheet][sc.headerRow][sc.startColumn + i - 1]
              # call.values[1][1]

\* C19 as claimed: getColumnRange(c, n) without allRow spans exactly the rows
\* from dataStartRow to dataStartRow + rowNum - 1, and getDataAreaRange spans
\* exactly rowNum rows by columnNum columns, for every cached rowNum, 0
\* included.
C19_Original ==
  sc.rowNum >= 0 =>
    /\ \A c \in Columns, n \in 1..MaxColumns :
         LET range == getColumnRange(sc, c, n, FALSE)
         IN  /\ range.startRow = sc.dataStartRow
             /\ range.numRows = sc.rowNum
             /\ range.startColumn = c
             /\ range.numColumns = n
    /\ getDataAreaRange(sc).numRows = sc.rowNum
    /\ getDataAreaRange(sc).numColumns = sc.columnNum

\* C20 as claimed: rowNum >= 0 and columnNum >= 0 in every state after
\* initialize, for every sheet content and every headerRow.
C20_Original == sc.rowNum >= 0 /\ sc.columnNum >= 0

\* C21 as claimed, in the case most favourable to it: the cached lastRow was
\* the scan result before the call and the sheet is as the update left it.
\* After a successful update, one that gives only keyColumn included, the
\* cached lastRow is what getLastRow returns for the current keyColumn.
C21_Original ==
  [][(Updated /\ sc.lastRow = getLastRow(sc, cells)) =>
       sc'.lastRow = getLastRow(sc', cells')]_vars

\* The last populated data row of the key column, the header row when no data
\* row is populated.
LastDataRow(t, cs) ==
  Max({t.headerRow} \cup
      {r \in t.dataStartRow..Len(cs[t.sheet]) :
         cs[t.sheet][r][t.keyColumn] # Empty})

\* C22 as claimed: after any sequence of addRowInDataArea calls, a call with
\* ADD_POSITION_LAST inserts the new row immediately below the last populated
\* data row of the key column as the sheet holds it at the call.
C22_Original ==
  [][(/\ call'.op = "addRowInDataArea"
      /\ steps' = steps + 1
      /\ call'.values = <<<<ADD_POSITION_LAST>>>>)
     => call'.result = LastDataRow(sc, cells) + 1]_vars

\* A step that is a copySheetToAnotherBook call that returned.
Copied ==
  call'.op = "copySheetToAnotherBook" /\ call'.ok /\ steps' = steps + 1

\* C23: copySheetToAnotherBook returns a controller bound to the copied sheet
\* in the destination book, with the headerRow, dataStartRow, startColumn and
\* keyColumn of the source controller and both cached pairs recomputed
\* against the copy; the source controller's binding, configuration and
\* cached state are unchanged.
C23_CopyController ==
  [][Copied =>
       LET copy == call'.returned
           name == IF call'.param.sheetName # "" THEN call'.param.sheetName
                   ELSE sc.sheetName
       IN  /\ copy.book = call'.param.bookId
           /\ copy.sheetName = name
           /\ copy.sheet = <<copy.book, name>>
           /\ name \in hasSheetNames'[copy.book]
           /\ cells'[copy.sheet] = cells[sc.sheet]
           /\ copy.headerRow = sc.headerRow
           /\ copy.dataStartRow = sc.dataStartRow
           /\ copy.startColumn = sc.startColumn
           /\ copy.keyColumn = sc.keyColumn
           /\ Fresh(copy, cells')
           /\ sc' = sc]_vars

\* A copy into the other book of a sheet written to directly: the source has
\* its own header row, start column and key column, and the copy's cached
\* header is the one read from the copy, not the source's cached one.
C23_Witness ==
  /\ call.op = "copySheetToAnotherBook" /\ call.ok
  /\ call.returned.book = "b2" /\ sc.book = "b1"
  /\ sc.headerRow = 2 /\ sc.startColumn = 2 /\ sc.keyColumn = 3
  /\ call.returned.headerRow = 2 /\ call.returned.keyColumn = 3
  /\ call.returned.header # sc.header
  /\ call.returned.lastRow # sc.lastRow

====
